---- MODULE Spec2Model ----
(***************************************************************************)
(* A model of filesystem.py: the allow-list loader, the authorization      *)
(* check and the nine public operations, over a POSIX filesystem with      *)
(* directories, regular files and symbolic links.                          *)
(*                                                                         *)
(* Text is a sequence of one-character strings.  A path is a sequence of   *)
(* components read from the root directory; the component ".." is the      *)
(* parent segment.  The interpreter's working directory is the root, so a  *)
(* relative path names the same sequence.                                  *)
(***************************************************************************)
EXTENDS Integers, Sequences, FiniteSets, TLC

VARIABLES
    environ,      \* os.environ["ALLOWED_DIR"], a text
    module,       \* "unloaded", "loaded", or the exception that ended the import
    ALLOWED_DIR,  \* the module global ALLOWED_DIR, a sequence of canonical paths
    fs,           \* the filesystem: entry location -> node
    last          \* the last call: operation, arguments, outcome, locations acted on

vars == <<environ, module, ALLOWED_DIR, fs, last>>

CR == "\r"
LF == "\n"

\* os.linesep of the POSIX build
linesep == <<LF>>

Min(a, b) == IF a < b THEN a ELSE b
Max(a, b) == IF a > b THEN a ELSE b

\* s[i:j] of Python, 0-based and half-open
Slice(s, i, j) == SubSeq(s, i + 1, j)

RECURSIVE Flatten(_)
Flatten(ss) == IF ss = <<>> THEN <<>> ELSE Head(ss) \o Flatten(Tail(ss))

\* all sequences over S of length at most n
RECURSIVE SeqsUpTo(_, _)
SeqsUpTo(S, n) ==
    IF n = 0 THEN {<<>>}
    ELSE LET shorter == SeqsUpTo(S, n - 1)
         IN  shorter \cup {Append(s, c) : s \in shorter, c \in S}

(***************************************************************************)
(* Text: str.replace, the `in` operator, str.splitlines(keepends=True),    *)
(* and the newline translation of open() in text mode.                     *)
(***************************************************************************)

\* old in s
Occurs(s, old) ==
    \E i \in 0..(Len(s) - Len(old)) : Slice(s, i, i + Len(old)) = old

RECURSIVE ReplaceFrom(_, _, _, _)
ReplaceFrom(s, old, new, i) ==
    IF i >= Len(s) THEN <<>>
    ELSE IF i + Len(old) <= Len(s) /\ Slice(s, i, i + Len(old)) = old
         THEN new \o ReplaceFrom(s, old, new, i + Len(old))
         ELSE <<s[i + 1]>> \o ReplaceFrom(s, old, new, i + 1)

\* an empty old_str matches before every character and at the end
RECURSIVE ReplaceEmpty(_, _)
ReplaceEmpty(s, new) ==
    IF s = <<>> THEN new
    ELSE new \o <<Head(s)>> \o ReplaceEmpty(Tail(s), new)

\* before.replace(old_str, new_str)
replace(s, old, new) ==
    IF old = <<>> THEN ReplaceEmpty(s, new) ELSE ReplaceFrom(s, old, new, 0)

\* s.splitlines(keepends=True): a line ends at "\n", "\r" or "\r\n"
RECURSIVE SplitFrom(_, _, _)
SplitFrom(s, i, cur) ==
    IF i > Len(s) THEN (IF cur = <<>> THEN <<>> ELSE <<cur>>)
    ELSE IF s[i] = CR /\ i < Len(s) /\ s[i + 1] = LF
         THEN <<cur \o <<CR, LF>>>> \o SplitFrom(s, i + 2, <<>>)
    ELSE IF s[i] = CR \/ s[i] = LF
         THEN <<Append(cur, s[i])>> \o SplitFrom(s, i + 1, <<>>)
    ELSE SplitFrom(s, i + 1, Append(cur, s[i]))

splitlines(s) == SplitFrom(s, 1, <<>>)

\* file.read() of a file opened "r": universal newlines, "\r\n" and "\r" become "\n"
RECURSIVE TextRead(_)
TextRead(data) ==
    IF data = <<>> THEN <<>>
    ELSE IF Head(data) = CR
         THEN IF Len(data) > 1 /\ data[2] = LF
              THEN <<LF>> \o TextRead(Tail(Tail(data)))
              ELSE <<LF>> \o TextRead(Tail(data))
    ELSE <<Head(data)>> \o TextRead(Tail(data))

\* file.write(s) of a file opened "w": "\n" becomes os.linesep
RECURSIVE TextWrite(_)
TextWrite(s) ==
    IF s = <<>> THEN <<>>
    ELSE (IF Head(s) = LF THEN linesep ELSE <<Head(s)>>) \o TextWrite(Tail(s))

(***************************************************************************)
(* difflib.unified_diff(a, b, fromfile="before", tofile="after") with the  *)
(* default n = 3 lines of context.  Lines are compared whole; no junk      *)
(* heuristic applies below 200 lines.  The diff is the sequence of pieces  *)
(* that "".join concatenates; every piece is a non-empty string, so the    *)
(* joined text is empty exactly when there is no piece.                    *)
(***************************************************************************)
DiffContext == 3

\* blocks a[i:i+k] = b[j:j+k] inside a[alo:ahi], b[blo:bhi]
Matches(a, b, alo, ahi, blo, bhi) ==
    {<<i, j, k>> \in (alo..(ahi - 1)) \X (blo..(bhi - 1)) \X (1..(ahi - alo)) :
        /\ i + k <= ahi
        /\ j + k <= bhi
        /\ \A t \in 1..k : a[i + t] = b[j + t]}

\* SequenceMatcher.find_longest_match: the longest block, the earliest in a,
\* then the earliest in b; <<alo, blo, 0>> when nothing matches
find_longest_match(a, b, alo, ahi, blo, bhi) ==
    LET M == Matches(a, b, alo, ahi, blo, bhi)
    IN  IF M = {} THEN <<alo, blo, 0>>
        ELSE CHOOSE m \in M :
                \A o \in M :
                    \/ m[3] > o[3]
                    \/ m[3] = o[3] /\ m[1] < o[1]
                    \/ m[3] = o[3] /\ m[1] = o[1] /\ m[2] <= o[2]

\* the queue of get_matching_blocks, in sorted order
RECURSIVE BlocksIn(_, _, _, _, _, _)
BlocksIn(a, b, alo, ahi, blo, bhi) ==
    LET m == find_longest_match(a, b, alo, ahi, blo, bhi)
        i == m[1]
        j == m[2]
        k == m[3]
    IN  IF k = 0 THEN <<>>
        ELSE (IF alo < i /\ blo < j THEN BlocksIn(a, b, alo, i, blo, j) ELSE <<>>)
             \o <<m>>
             \o (IF i + k < ahi /\ j + k < bhi
                 THEN BlocksIn(a, b, i + k, ahi, j + k, bhi) ELSE <<>>)

\* adjacent blocks are collapsed into one
RECURSIVE Collapse(_, _)
Collapse(blocks, cur) ==
    IF blocks = <<>> THEN (IF cur[3] > 0 THEN <<cur>> ELSE <<>>)
    ELSE LET nb == Head(blocks)
         IN  IF cur[1] + cur[3] = nb[1] /\ cur[2] + cur[3] = nb[2]
             THEN Collapse(Tail(blocks), <<cur[1], cur[2], cur[3] + nb[3]>>)
             ELSE (IF cur[3] > 0 THEN <<cur>> ELSE <<>>) \o Collapse(Tail(blocks), nb)

get_matching_blocks(a, b) ==
    Collapse(BlocksIn(a, b, 0, Len(a), 0, Len(b)), <<0, 0, 0>>)
        \o <<<<Len(a), Len(b), 0>>>>

RECURSIVE OpcodesFrom(_, _, _)
OpcodesFrom(blocks, i, j) ==
    IF blocks = <<>> THEN <<>>
    ELSE LET ai == Head(blocks)[1]
             bj == Head(blocks)[2]
             size == Head(blocks)[3]
             tag == IF i < ai /\ j < bj THEN "replace"
                    ELSE IF i < ai THEN "delete"
                    ELSE IF j < bj THEN "insert"
                    ELSE ""
         IN  (IF tag # "" THEN <<<<tag, i, ai, j, bj>>>> ELSE <<>>)
             \o (IF size > 0 THEN <<<<"equal", ai, ai + size, bj, bj + size>>>> ELSE <<>>)
             \o OpcodesFrom(Tail(blocks), ai + size, bj + size)

get_opcodes(a, b) == OpcodesFrom(get_matching_blocks(a, b), 0, 0)

\* the loop of get_grouped_opcodes over the trimmed codes
RECURSIVE GroupsFrom(_, _, _)
GroupsFrom(codes, group, n) ==
    IF codes = <<>>
    THEN IF group # <<>> /\ ~(Len(group) = 1 /\ group[1][1] = "equal")
         THEN <<group>> ELSE <<>>
    ELSE LET c == Head(codes)
         IN  IF c[1] = "equal" /\ c[3] - c[2] > n + n
             THEN <<Append(group, <<"equal", c[2], Min(c[3], c[2] + n),
                                    c[4], Min(c[5], c[4] + n)>>)>>
                  \o GroupsFrom(Tail(codes),
                                <<<<"equal", Max(c[2], c[3] - n), c[3],
                                    Max(c[4], c[5] - n), c[5]>>>>, n)
             ELSE GroupsFrom(Tail(codes), Append(group, c), n)

\* codes[0] and codes[-1], when "equal", keep n lines of context
TrimFirst(codes, n) ==
    IF codes[1][1] # "equal" THEN codes
    ELSE [codes EXCEPT ![1] = <<"equal", Max(@[2], @[3] - n), @[3], Max(@[4], @[5] - n), @[5]>>]

TrimLast(codes, n) ==
    IF codes[Len(codes)][1] # "equal" THEN codes
    ELSE [codes EXCEPT ![Len(codes)] =
              <<"equal", @[2], Min(@[3], @[2] + n), @[4], Min(@[5], @[4] + n)>>]

OrOneEqual(codes) == IF codes = <<>> THEN <<<<"equal", 0, 1, 0, 1>>>> ELSE codes

get_grouped_opcodes(a, b, n) ==
    GroupsFrom(TrimLast(TrimFirst(OrOneEqual(get_opcodes(a, b)), n), n), <<>>, n)

\* _format_range_unified: <<beginning>> for one line, else <<beginning, length>>
format_range_unified(start, stop) ==
    LET length == stop - start
    IN  IF length = 1 THEN <<start + 1>>
        ELSE IF length = 0 THEN <<start, 0>>
        ELSE <<start + 1, length>>

RECURSIVE Prefixed(_, _)
Prefixed(tag, lines) ==
    IF lines = <<>> THEN <<>>
    ELSE <<<<tag, Head(lines)>>>> \o Prefixed(tag, Tail(lines))

\* the lines of one opcode
CodeLines(a, b, c) ==
    IF c[1] = "equal" THEN Prefixed(" ", Slice(a, c[2], c[3]))
    ELSE (IF c[1] \in {"replace", "delete"} THEN Prefixed("-", Slice(a, c[2], c[3])) ELSE <<>>)
         \o (IF c[1] \in {"replace", "insert"} THEN Prefixed("+", Slice(b, c[4], c[5])) ELSE <<>>)

RECURSIVE HunkLines(_, _, _)
HunkLines(a, b, group) ==
    IF group = <<>> THEN <<>>
    ELSE CodeLines(a, b, Head(group)) \o HunkLines(a, b, Tail(group))

\* the "@@ -range +range @@" line of a group, then its lines
Hunk(a, b, g) ==
    <<<<"@@", format_range_unified(g[1][2], g[Len(g)][3]),
              format_range_unified(g[1][4], g[Len(g)][5])>>>>
    \o HunkLines(a, b, g)

RECURSIVE Hunks(_, _, _)
Hunks(a, b, groups) ==
    IF groups = <<>> THEN <<>>
    ELSE Hunk(a, b, Head(groups)) \o Hunks(a, b, Tail(groups))

\* the two header lines come before the first group, if there is one
DiffOf(a, b, groups) ==
    IF groups = <<>> THEN <<>>
    ELSE <<<<"---", "before">>, <<"+++", "after">>>> \o Hunks(a, b, groups)

unified_diff(a, b) == DiffOf(a, b, get_grouped_opcodes(a, b, DiffContext))

(***************************************************************************)
(* The filesystem.  fs maps the location of every entry (a path of plain   *)
(* names, no "..", no link in it) to its node; the root directory <<>> is  *)
(* always present.  A link holds an absolute target path.                  *)
(***************************************************************************)
Dir == [kind |-> "dir", data |-> <<>>, to |-> <<>>]
File(d) == [kind |-> "file", data |-> d, to |-> <<>>]
Link(t) == [kind |-> "link", data |-> <<>>, to |-> t]

Parent(p) == IF p = <<>> THEN <<>> ELSE SubSeq(p, 1, Len(p) - 1)
IsPrefix(r, p) == Len(r) <= Len(p) /\ SubSeq(p, 1, Len(r)) = r

Has(f, loc) == loc = <<>> \/ loc \in DOMAIN f
IsDirAt(f, loc) == loc = <<>> \/ (loc \in DOMAIN f /\ f[loc].kind = "dir")
IsFileAt(f, loc) == loc \in DOMAIN f /\ f[loc].kind = "file"
IsLinkAt(f, loc) == loc \in DOMAIN f /\ f[loc].kind = "link"

Put(f, loc, node) == [q \in DOMAIN f \cup {loc} |-> IF q = loc THEN node ELSE f[q]]
Remove(f, locs) == [q \in DOMAIN f \ locs |-> f[q]]

\* the links a lookup may follow before it is a loop
Hops(f, p) == Len(p) + Cardinality(DOMAIN f)

(***************************************************************************)
(* os.path.realpath(path, strict=False), as posixpath._joinrealpath walks  *)
(* it: "." and "" are dropped by the parser, ".." pops the resolved        *)
(* prefix, a link is replaced by its resolved target, and a component that *)
(* does not exist is kept as written.                                      *)
(***************************************************************************)
RECURSIVE joinrealpath(_, _, _, _)
joinrealpath(f, path, rest, fuel) ==
    IF rest = <<>> THEN [exc |-> "", path |-> path]
    ELSE LET name == Head(rest)
             newpath == Append(path, name)
         IN  IF name = ".." THEN joinrealpath(f, Parent(path), Tail(rest), fuel)
             ELSE IF IsLinkAt(f, newpath)
                  THEN IF fuel = 0 THEN [exc |-> "RuntimeError", path |-> newpath]
                       ELSE joinrealpath(f, <<>>, f[newpath].to \o Tail(rest), fuel - 1)
             ELSE joinrealpath(f, newpath, Tail(rest), fuel)

\* Path(path).resolve(): realpath, and RuntimeError on a symlink loop
resolve(f, path) == joinrealpath(f, <<>>, path, Hops(f, path))

\* Path.parents of a resolved path: its strict ancestors
parents(p) == {SubSeq(p, 1, k) : k \in 0..(Len(p) - 1)}

(***************************************************************************)
(* The kernel's path lookup, used by open, stat, mkdir, rename, scandir:   *)
(* every component before the last must be a directory (after following    *)
(* links), ".." is the parent of the directory reached, and the last       *)
(* component is followed only when follow is set.  loc is the location the *)
(* path names, whether or not an entry is there.                           *)
(***************************************************************************)
RECURSIVE Walk(_, _, _, _, _)
Walk(f, cur, rest, follow, fuel) ==
    IF rest = <<>> THEN [err |-> "", loc |-> cur]
    ELSE IF ~IsDirAt(f, cur)
         THEN [err |-> IF Has(f, cur) THEN "NotADirectoryError" ELSE "FileNotFoundError",
               loc |-> cur]
    ELSE LET name == Head(rest)
             np == Append(cur, name)
         IN  IF name = ".." THEN Walk(f, Parent(cur), Tail(rest), follow, fuel)
             ELSE IF IsLinkAt(f, np) /\ (follow \/ Tail(rest) # <<>>)
                  THEN IF fuel = 0 THEN [err |-> "OSError", loc |-> np]
                       ELSE Walk(f, <<>>, f[np].to \o Tail(rest), follow, fuel - 1)
             ELSE Walk(f, np, Tail(rest), follow, fuel)

Lookup(f, path) == Walk(f, <<>>, path, TRUE, Hops(f, path))
LookupNoFollow(f, path) == Walk(f, <<>>, path, FALSE, Hops(f, path))

\* Path(path).exists() and Path(path).is_dir(): stat, with lookup errors read as False
Found(f, w) == w.err = "" /\ Has(f, w.loc)
FoundDir(f, w) == w.err = "" /\ IsDirAt(f, w.loc)
exists(f, path) == Found(f, Lookup(f, path))
is_dir(f, path) == FoundDir(f, Lookup(f, path))

\* the names os.scandir finds in the directory that path names
EntriesIn(f, loc) == {q[Len(q)] : q \in {x \in DOMAIN f : x # <<>> /\ Parent(x) = loc}}
scandir(f, path) == EntriesIn(f, Lookup(f, path).loc)

\* open(path, "r").read(): the text, or the exception
ReadAt(f, w) ==
    IF w.err # "" THEN [exc |-> w.err, text |-> <<>>, loc |-> w.loc]
    ELSE IF ~Has(f, w.loc) THEN [exc |-> "FileNotFoundError", text |-> <<>>, loc |-> w.loc]
    ELSE IF IsDirAt(f, w.loc) THEN [exc |-> "IsADirectoryError", text |-> <<>>, loc |-> w.loc]
    ELSE [exc |-> "", text |-> TextRead(f[w.loc].data), loc |-> w.loc]

OpenRead(f, path) == ReadAt(f, Lookup(f, path))

\* open(path, "w").write(text): the file is created or truncated
WriteAt(f, w, text) ==
    IF w.err # "" THEN [exc |-> w.err, fs |-> f, loc |-> w.loc]
    ELSE IF IsDirAt(f, w.loc) THEN [exc |-> "IsADirectoryError", fs |-> f, loc |-> w.loc]
    ELSE [exc |-> "", fs |-> Put(f, w.loc, File(TextWrite(text))), loc |-> w.loc]

OpenWrite(f, path, text) == WriteAt(f, Lookup(f, path), text)

(***************************************************************************)
(* json.loads on the values an allow-list can hold: arrays and strings,    *)
(* with optional whitespace.  Any other character where a value must       *)
(* start, an unterminated string or array, and text after the value are    *)
(* JSONDecodeError.                                                        *)
(***************************************************************************)
JsonWs == {" ", "\t", LF, CR}
JsonFail == [ok |-> FALSE, t |-> "", s |-> <<>>, items |-> <<>>, next |-> 0]
JsonStr(s, next) == [ok |-> TRUE, t |-> "str", s |-> s, items |-> <<>>, next |-> next]
JsonArr(items, next) == [ok |-> TRUE, t |-> "arr", s |-> <<>>, items |-> items, next |-> next]

RECURSIVE SkipWs(_, _)
SkipWs(s, i) == IF i <= Len(s) /\ s[i] \in JsonWs THEN SkipWs(s, i + 1) ELSE i

\* the index of the quote that closes a string whose text starts at i, or 0
RECURSIVE CloseQuote(_, _)
CloseQuote(s, i) ==
    IF i > Len(s) THEN 0
    ELSE IF s[i] = "\"" THEN i
    ELSE CloseQuote(s, i + 1)

RECURSIVE ParseValue(_, _)
RECURSIVE ParseItems(_, _, _)
ParseValue(s, i) ==
    IF i > Len(s) THEN JsonFail
    ELSE IF s[i] = "\""
         THEN LET j == CloseQuote(s, i + 1)
              IN  IF j = 0 THEN JsonFail ELSE JsonStr(SubSeq(s, i + 1, j - 1), j + 1)
    ELSE IF s[i] = "["
         THEN LET j == SkipWs(s, i + 1)
              IN  IF j <= Len(s) /\ s[j] = "]" THEN JsonArr(<<>>, j + 1)
                  ELSE ParseItems(s, j, <<>>)
    ELSE JsonFail

ParseItems(s, i, acc) ==
    LET v == ParseValue(s, i)
        j == SkipWs(s, v.next)
    IN  IF ~v.ok \/ j > Len(s) THEN JsonFail
        ELSE IF s[j] = "]" THEN JsonArr(Append(acc, v), j + 1)
        ELSE IF s[j] = "," THEN ParseItems(s, SkipWs(s, j + 1), Append(acc, v))
        ELSE JsonFail

json_loads(s) ==
    LET v == ParseValue(s, SkipWs(s, 1))
    IN  IF v.ok /\ SkipWs(s, v.next) = Len(s) + 1 THEN v ELSE JsonFail

\* Path(text): the components between "/", with "" and "." dropped
RECURSIVE PathFrom(_, _, _)
PathFrom(s, i, cur) ==
    LET done == IF cur = "" \/ cur = "." THEN <<>> ELSE <<cur>>
    IN  IF i > Len(s) THEN done
        ELSE IF s[i] = "/" THEN done \o PathFrom(s, i + 1, "")
        ELSE PathFrom(s, i + 1, cur \o s[i])

Path(text) == PathFrom(text, 1, "")

(***************************************************************************)
(* _get_allowed_dir and the module global ALLOWED_DIR                      *)
(***************************************************************************)
RECURSIVE ResolveAll(_, _)
ResolveAll(f, ps) ==
    IF ps = <<>> THEN [exc |-> "", dirs |-> <<>>]
    ELSE LET r == resolve(f, Head(ps))
             rest == ResolveAll(f, Tail(ps))
         IN  IF r.exc # "" THEN [exc |-> r.exc, dirs |-> <<>>]
             ELSE IF rest.exc # "" THEN rest
             ELSE [exc |-> "", dirs |-> <<r.path>> \o rest.dirs]

\* the elements json.loads's value yields when iterated, as Path arguments:
\* the items of an array, the characters of a string
Elements(v) ==
    IF v.t = "arr" THEN [i \in DOMAIN v.items |-> v.items[i]]
    ELSE [i \in DOMAIN v.s |-> JsonStr(<<v.s[i]>>, 0)]

\* a variant without the test for the empty value
GetAllowedDirUnguarded(f, allowed_dir_str) ==
    IF \E i \in DOMAIN allowed_dir_str : allowed_dir_str[i] = "["
    THEN LET v == json_loads(allowed_dir_str)
             es == Elements(v)
         IN  IF ~v.ok THEN [exc |-> "JSONDecodeError", dirs |-> <<>>]
             ELSE IF \E i \in DOMAIN es : es[i].t # "str"
                  THEN [exc |-> "TypeError", dirs |-> <<>>]
             ELSE ResolveAll(f, [i \in DOMAIN es |-> Path(es[i].s)])
    ELSE ResolveAll(f, <<Path(allowed_dir_str)>>)

_get_allowed_dir(f, allowed_dir_str) ==
    IF allowed_dir_str = <<>> THEN [exc |-> "", dirs |-> <<>>]
    ELSE IF \E i \in DOMAIN allowed_dir_str : allowed_dir_str[i] = "["
         THEN LET v == json_loads(allowed_dir_str)
                  es == Elements(v)
              IN  IF ~v.ok THEN [exc |-> "JSONDecodeError", dirs |-> <<>>]
                  ELSE IF \E i \in DOMAIN es : es[i].t # "str"
                       THEN [exc |-> "TypeError", dirs |-> <<>>]
                  ELSE ResolveAll(f, [i \in DOMAIN es |-> Path(es[i].s)])
    ELSE ResolveAll(f, <<Path(allowed_dir_str)>>)

(***************************************************************************)
(* _path_is_allowed: "" when the call returns, else the exception          *)
(***************************************************************************)
\* a variant with the test on the parents alone
PathIsAllowedParentsOnly(f, path) ==
    LET r == resolve(f, path)
    IN  IF r.exc # "" THEN r.exc
        ELSE IF ~(\E i \in DOMAIN ALLOWED_DIR : ALLOWED_DIR[i] \in parents(r.path))
             THEN "NotAuthorizedError"
        ELSE ""

_path_is_allowed(f, path) ==
    LET r == resolve(f, path)
    IN  IF r.exc # "" THEN r.exc
        ELSE IF \E i \in DOMAIN ALLOWED_DIR : r.path = ALLOWED_DIR[i] THEN ""
        ELSE IF ~(\E i \in DOMAIN ALLOWED_DIR : ALLOWED_DIR[i] \in parents(r.path))
             THEN "NotAuthorizedError"
        ELSE ""

(***************************************************************************)
(* The public operations.  Each is the whole handler: it takes the         *)
(* filesystem it starts from and yields the filesystem it leaves, the      *)
(* exception it raises ("" when it returns), what it returns, and the      *)
(* locations of the entries it read, wrote, renamed, listed or returned    *)
(* (acted).  What it returns is held by type: a string (text), a list      *)
(* (data), the dictionary of read_files (contents), the entries of         *)
(* list_dir, the paths of search, the info of get_path_info.               *)
(***************************************************************************)
NoInfo == [size_in_bytes |-> 0, type |-> ""]

Ret(f, exc, text, data, acted) ==
    [fs |-> f, exc |-> exc, text |-> text, data |-> data, acted |-> acted,
     contents |-> <<>>, entries |-> {}, paths |-> {}, info |-> NoInfo]

Raise(f, exc) == Ret(f, exc, "", <<>>, {})

\* the first exception of _path_is_allowed over the paths in order, or ""
RECURSIVE FirstDenied(_, _)
FirstDenied(f, paths) ==
    IF paths = <<>> THEN ""
    ELSE LET a == _path_is_allowed(f, Head(paths))
         IN  IF a # "" THEN a ELSE FirstDenied(f, Tail(paths))

\* the indices of the paths whose _read_files_helper raises
ReadFailures(f, paths) == {i \in DOMAIN paths : OpenRead(f, paths[i]).exc # ""}

\* the dictionary {path: result}, or the exception of the k-th read when reads
\* fail: the pool surfaces the exception of the read that fails first
ReadAll(f, paths, reads, failed, k) ==
    IF failed # {}
    THEN Ret(f, reads[IF k \in failed THEN k ELSE CHOOSE i \in failed : TRUE].exc,
             "", <<>>, {reads[i].loc : i \in DOMAIN paths \ failed})
    ELSE [Ret(f, "", "", <<>>, {reads[i].loc : i \in DOMAIN paths})
             EXCEPT !.contents = [p \in {paths[i] : i \in DOMAIN paths} |->
                                     reads[CHOOSE i \in DOMAIN paths : paths[i] = p].text]]

Reads(f, paths) == [i \in DOMAIN paths |-> OpenRead(f, paths[i])]
Failed(reads) == {i \in DOMAIN reads : reads[i].exc # ""}

RaiseOr(f, exc, r) == IF exc # "" THEN Raise(f, exc) ELSE r

read_files(f, paths, k) ==
    RaiseOr(f, FirstDenied(f, paths),
            ReadAll(f, paths, Reads(f, paths), ReadFailures(f, paths), k))

\* a variant that writes whether or not the file exists
WriteFileAlwaysWrites(f, path, content, overwrite_if_exists) ==
    LET a == _path_is_allowed(f, path)
        file_exists == exists(f, path)
        w == OpenWrite(f, path, content)
    IN  IF a # "" THEN Raise(f, a)
        ELSE IF w.exc # "" THEN Raise(f, w.exc)
        ELSE Ret(w.fs, "", IF file_exists THEN "File overwritten" ELSE "File created",
                 <<>>, {w.loc})

write_file(f, path, content, overwrite_if_exists) ==
    LET a == _path_is_allowed(f, path)
        file_exists == exists(f, path)
        w == OpenWrite(f, path, content)
    IN  IF a # "" THEN Raise(f, a)
        ELSE IF file_exists /\ ~overwrite_if_exists
             THEN Ret(f, "", "File exists, no action taken", <<>>, {Lookup(f, path).loc})
        ELSE IF w.exc # "" THEN Raise(f, w.exc)
        ELSE Ret(w.fs, "", IF file_exists THEN "File overwritten" ELSE "File created",
                 <<>>, {w.loc})

\* a variant that writes the file in a dry run too
EditFileDryRunWrites(f, path, old_str, new_str, dry_run) ==
    LET a == _path_is_allowed(f, path)
        r == OpenRead(f, path)
        before == r.text
        after == replace(before, old_str, new_str)
        w == OpenWrite(f, path, after)
    IN  IF a # "" THEN Raise(f, a)
        ELSE IF r.exc # "" THEN Raise(f, r.exc)
        ELSE IF w.exc # "" THEN Raise(f, w.exc)
        ELSE IF dry_run
             THEN Ret(w.fs, "", "", unified_diff(splitlines(before), splitlines(after)), {r.loc})
        ELSE Ret(w.fs, "", "File edited", <<>>, {w.loc})

edit_file(f, path, old_str, new_str, dry_run) ==
    LET a == _path_is_allowed(f, path)
        r == OpenRead(f, path)
        before == r.text
        after == replace(before, old_str, new_str)
        w == OpenWrite(f, path, after)
    IN  IF a # "" THEN Raise(f, a)
        ELSE IF r.exc # "" THEN Raise(f, r.exc)
        ELSE IF dry_run
             THEN Ret(f, "", "", unified_diff(splitlines(before), splitlines(after)), {r.loc})
        ELSE IF w.exc # "" THEN Raise(f, w.exc)
        ELSE Ret(w.fs, "", "File edited", <<>>, {w.loc})

\* os.mkdir: the last component is not followed
os_mkdir(f, path) ==
    LET w == LookupNoFollow(f, path)
    IN  IF w.err # "" THEN [exc |-> w.err, fs |-> f, made |-> {}]
        ELSE IF Has(f, w.loc) THEN [exc |-> "FileExistsError", fs |-> f, made |-> {}]
        ELSE [exc |-> "", fs |-> Put(f, w.loc, Dir), made |-> {w.loc}]

\* Path.mkdir(parents, exist_ok); Path.parent is the path without its last component
RECURSIVE mkdir(_, _, _, _)
mkdir(f, path, parents_, exist_ok) ==
    LET m == os_mkdir(f, path)
    IN  IF m.exc = "" THEN m
        ELSE IF m.exc = "FileNotFoundError"
             THEN IF ~parents_ \/ path = <<>> THEN m
                  ELSE LET up == mkdir(f, Parent(path), TRUE, TRUE)
                           me == mkdir(up.fs, path, FALSE, exist_ok)
                       IN  IF up.exc # "" THEN up
                           ELSE [me EXCEPT !.made = me.made \cup up.made]
        ELSE IF ~exist_ok \/ ~is_dir(f, path) THEN m
        ELSE [exc |-> "", fs |-> f, made |-> {}]

create_dir(f, path, parents_, exist_ok) ==
    LET a == _path_is_allowed(f, path)
        m == mkdir(f, path, parents_, exist_ok)
    IN  IF a # "" THEN Raise(f, a)
        ELSE IF m.exc # "" THEN Ret(m.fs, m.exc, "", <<>>, m.made)
        ELSE Ret(m.fs, "", "Path created", <<>>, m.made \cup {Lookup(m.fs, path).loc})

(***************************************************************************)
(* Path(path).glob(pattern) of pathlib: the pattern is its sequence of     *)
(* parts, each "*", ".." or a plain name.  A plain part (and "..") is      *)
(* appended when the result exists (is a directory, when parts follow); a  *)
(* "*" lists the directory and keeps, when parts follow, the directories.  *)
(* The paths found are spelled as joined, not resolved.                    *)
(***************************************************************************)
RECURSIVE Select(_, _, _)
Select(f, found, parts) ==
    IF parts = <<>> THEN found
    ELSE LET part == Head(parts)
             dironly == Tail(parts) # <<>>
             next == IF part = "*"
                     THEN {q \in UNION {{Append(p, n) : n \in scandir(f, p)} : p \in found} :
                              dironly => is_dir(f, q)}
                     ELSE {Append(p, part) : p \in
                              {x \in found : IF dironly THEN is_dir(f, Append(x, part))
                                             ELSE exists(f, Append(x, part))}}
         IN  Select(f, next, Tail(parts))

glob(f, path, parts) == IF ~is_dir(f, path) THEN {} ELSE Select(f, {path}, parts)

list_dir(f, path) ==
    LET a == _path_is_allowed(f, path)
        children == glob(f, path, <<"*">>)
    IN  IF a # "" THEN Raise(f, a)
        ELSE [Ret(f, "", "", <<>>,
                  IF is_dir(f, path)
                  THEN {Lookup(f, path).loc} \cup {LookupNoFollow(f, c).loc : c \in children}
                  ELSE {})
              EXCEPT !.entries =
                  {[name |-> c[Len(c)], type |-> IF is_dir(f, c) THEN "dir" ELSE "file"] :
                      c \in children}]

\* os.path.normpath: ".." removes the component before it
RECURSIVE normpath(_)
normpath(p) ==
    IF p = <<>> THEN <<>>
    ELSE LET init == normpath(Parent(p))
         IN  IF p[Len(p)] = ".." THEN Parent(init) ELSE Append(init, p[Len(p)])

\* the entries at and under ws, moved to wd; what was at wd is replaced
Relocate(f, ws, wd, moved, kept) ==
    [q \in DOMAIN kept \cup {wd \o SubSeq(m, Len(ws) + 1, Len(m)) : m \in moved} |->
        IF IsPrefix(wd, q) THEN f[ws \o SubSeq(q, Len(wd) + 1, Len(q))] ELSE f[q]]

Under(f, loc) == {q \in DOMAIN f : IsPrefix(loc, q)}

RenameAt(f, ws, wd) ==
    [from |-> ws.loc, to |-> wd.loc,
     exc |-> IF ws.err # "" THEN ws.err
             ELSE IF ~Has(f, ws.loc) THEN "FileNotFoundError"
             ELSE IF ws.loc = <<>> THEN "OSError"
             ELSE IF wd.err # "" THEN wd.err
             ELSE IF ws.loc = wd.loc THEN ""
             ELSE IF IsDirAt(f, ws.loc) /\ IsPrefix(ws.loc, wd.loc) THEN "OSError"
             ELSE IF Has(f, wd.loc) /\ IsDirAt(f, ws.loc) /\ ~IsDirAt(f, wd.loc)
                  THEN "NotADirectoryError"
             ELSE IF Has(f, wd.loc) /\ ~IsDirAt(f, ws.loc) /\ IsDirAt(f, wd.loc)
                  THEN "IsADirectoryError"
             ELSE IF IsDirAt(f, wd.loc) /\ Under(f, wd.loc) # {wd.loc} THEN "OSError"
             ELSE ""]

\* os.rename(src, dst) on one device: neither last component is followed
RenameDone(f, r) ==
    [r EXCEPT !.exc = r.exc] @@
    [fs |-> IF r.exc # "" \/ r.from = r.to THEN f
            ELSE Relocate(f, r.from, r.to, Under(f, r.from),
                          Remove(f, Under(f, r.from) \cup Under(f, r.to)))]

rename(f, src, dst) ==
    RenameDone(f, RenameAt(f, LookupNoFollow(f, src), LookupNoFollow(f, dst)))

\* shutil.move falls back to copytree when os.rename of a directory fails and
\* the destination is not spelled inside the source; copytree is not modelled
MoveCopiesTree(f, src, dst) ==
    /\ rename(f, src, dst).exc # ""
    /\ ~IsLinkAt(f, LookupNoFollow(f, src).loc)
    /\ is_dir(f, src)
    /\ ~IsPrefix(normpath(src), normpath(dst))

\* shutil.move(src, dst) when dst does not exist, r being os.rename's outcome
shutil_move(f, src, r) ==
    IF r.exc = "" THEN Ret(r.fs, "", "Moved path", <<>>, {r.from, r.to})
    ELSE IF ~IsLinkAt(f, r.from) /\ is_dir(f, src) THEN Raise(f, "shutil.Error")
    ELSE Raise(f, r.exc)

\* a variant that checks the source alone
MoveChecksSrcOnly(f, src, dst) ==
    RaiseOr(f, FirstDenied(f, <<src>>),
            IF exists(f, dst) THEN Raise(f, "FileExistsError")
            ELSE shutil_move(f, src, rename(f, src, dst)))

\* a variant without the test that dst exists
MoveOntoAnything(f, src, dst) ==
    RaiseOr(f, FirstDenied(f, <<src, dst>>), shutil_move(f, src, rename(f, src, dst)))

move(f, src, dst) ==
    RaiseOr(f, FirstDenied(f, <<src, dst>>),
            IF exists(f, dst) THEN Raise(f, "FileExistsError")
            ELSE shutil_move(f, src, rename(f, src, dst)))

search(f, path, pattern) ==
    LET a == _path_is_allowed(f, path)
        results == glob(f, path, pattern)
    IN  IF a # "" THEN Raise(f, a)
        ELSE IF pattern = <<>> THEN Raise(f, "ValueError")
        ELSE [Ret(f, "", "", <<>>, {Lookup(f, r).loc : r \in results})
              EXCEPT !.paths = results]

\* st_size of a directory is the kernel's own; it is left at 0
get_path_info(f, path) ==
    LET a == _path_is_allowed(f, path)
        w == Lookup(f, path)
    IN  IF a # "" THEN Raise(f, a)
        ELSE IF w.err # "" THEN Raise(f, w.err)
        ELSE IF ~Has(f, w.loc) THEN Raise(f, "FileNotFoundError")
        ELSE [Ret(f, "", "", <<>>, {w.loc})
              EXCEPT !.info =
                  [size_in_bytes |-> IF IsFileAt(f, w.loc) THEN Len(f[w.loc].data) ELSE 0,
                   type |-> IF IsDirAt(f, w.loc) THEN "dir" ELSE "file"]]

list_allowed_dir(f) == Ret(f, "", "", ALLOWED_DIR, {})

(***************************************************************************)
(* Bounds and inputs                                                       *)
(***************************************************************************)
MaxText == 3     \* characters in a file of the edit specification
MaxFrag == 2     \* characters in old_str and in new_str
MaxTokens == 5   \* tokens in an ALLOWED_DIR value of the loader specification
MaxPaths == 2    \* paths in one read_files call
MaxDepth == 3    \* components in the location of an entry

\* the filesystems the model follows: no entry deeper than MaxDepth, no file
\* longer than MaxText
Bounded(f) ==
    \A q \in DOMAIN f :
        /\ Len(q) <= MaxDepth
        /\ Len(f[q].data) <= MaxText

\* ALLOWED_DIR values: unset roots, one root, two roots as a JSON array
CfgEmpty == <<>>
CfgOne == <<"/", "s">>
CfgTwo == <<"[", "\"", "/", "s", "\"", ",", "\"", "/", "e", "\"", "]">>
ConfigValues == {CfgEmpty, CfgOne, CfgTwo}

\* the pieces ALLOWED_DIR values of the loader specification are made of
Tokens == {<<"[">>, <<"]">>, <<",">>, <<"/", "s">>,
           <<"\"", "/", "s", "\"">>, <<"\"", "/", "e", "\"">>}
TokenTexts == {Flatten(ts) : ts \in SeqsUpTo(Tokens, MaxTokens)}

\* candidate paths: /s, /s/f, /s/l, /s/l/f, /s/../e/f, /e/f
Paths == {<<"s">>, <<"s", "f">>, <<"s", "l">>, <<"s", "l", "f">>,
          <<"s", "..", "e", "f">>, <<"e", "f">>}
\* the paths that writes, edits and mkdir are tried on
WritePaths == {<<"s", "f">>, <<"s", "l", "f">>, <<"s", "..", "e", "f">>, <<"e", "f">>}
\* /s and /e are never a source: the links point to them
SrcPaths == {<<"s", "f">>, <<"s", "l">>, <<"s", "l", "f">>, <<"e", "f">>}
DstPaths == {<<"s">>, <<"s", "f">>, <<"s", "l", "f">>, <<"e", "f">>}
Patterns == {<<>>, <<"*">>, <<"..", "*">>, <<"l", "*">>, <<"*", "*">>}
Contents == {<<>>, <<"a", LF>>}
Frags == {<<"a">>, <<"b">>}

\* where the environment puts a symbolic link, and what it points to
LinkPaths == {<<"s", "l">>}
LinkTargets == {<<"s">>, <<"e">>}

EditChars == {"a", CR, LF}
EditPaths == {<<"s", "f">>, <<"s", "g">>, <<"e", "f">>}

LoaderPaths == {<<"s">>, <<"s", "f">>, <<"e">>, <<"x">>}

NoCall == [op |-> "", args |-> <<>>, exc |-> "", text |-> "", data |-> <<>>, acted |-> {},
           contents |-> <<>>, entries |-> {}, paths |-> {}, info |-> NoInfo]

\* /s and /e are directories, /e/f is a file outside /s
InitFs == Put(Put(Put(<<>>, <<"s">>, Dir), <<"e">>, Dir), <<"e", "f">>, File(<<"a">>))

(***************************************************************************)
(* Actions                                                                 *)
(***************************************************************************)
\* the import of the module: ALLOWED_DIR = _get_allowed_dir()
Import ==
    /\ module = "unloaded"
    /\ LET r == _get_allowed_dir(fs, environ)
       IN  /\ module' = IF r.exc = "" THEN "loaded" ELSE r.exc
           /\ ALLOWED_DIR' = r.dirs
           /\ last' = [NoCall EXCEPT !.op = "import", !.exc = r.exc]
    /\ UNCHANGED <<environ, fs>>

\* one call at a time: a call starts when the module is imported and the last
\* call has returned
Idle == module = "loaded" /\ last.op = ""

Call(op, args, r) ==
    /\ Bounded(r.fs)
    /\ fs' = r.fs
    /\ last' = [op |-> op, args |-> args, exc |-> r.exc, text |-> r.text,
                data |-> r.data, acted |-> r.acted, contents |-> r.contents,
                entries |-> r.entries, paths |-> r.paths, info |-> r.info]
    /\ UNCHANGED <<environ, module, ALLOWED_DIR>>

PathIsAllowed(P) ==
    /\ Idle
    /\ \E p \in P :
           Call("_path_is_allowed", [path |-> p], Raise(fs, _path_is_allowed(fs, p)))

ReadFiles(P) ==
    /\ Idle
    /\ \E ps \in SeqsUpTo(P, MaxPaths) :
           \E k \in IF ReadFailures(fs, ps) = {} THEN {0} ELSE ReadFailures(fs, ps) :
               Call("read_files", [paths |-> ps], read_files(fs, ps, k))

WriteFile(P, C) ==
    /\ Idle
    /\ \E p \in P, c \in C, o \in BOOLEAN :
           Call("write_file", [path |-> p, content |-> c, overwrite_if_exists |-> o],
                write_file(fs, p, c, o))

EditFile(P, F) ==
    /\ Idle
    /\ \E p \in P, old \in F, new \in F, dry \in BOOLEAN :
           Call("edit_file", [path |-> p, old_str |-> old, new_str |-> new, dry_run |-> dry],
                edit_file(fs, p, old, new, dry))

CreateDir(P) ==
    /\ Idle
    /\ \E p \in P, ps \in BOOLEAN, ok \in BOOLEAN :
           Call("create_dir", [path |-> p, parents |-> ps, exist_ok |-> ok],
                create_dir(fs, p, ps, ok))

ListDir(P) ==
    /\ Idle
    /\ \E p \in P : Call("list_dir", [path |-> p], list_dir(fs, p))

Move(S, D) ==
    /\ Idle
    /\ \E src \in S, dst \in D :
           /\ ~MoveCopiesTree(fs, src, dst)
           /\ Call("move", [src |-> src, dst |-> dst], move(fs, src, dst))

Search(P, G) ==
    /\ Idle
    /\ \E p \in P, g \in G :
           Call("search", [path |-> p, pattern |-> g], search(fs, p, g))

GetPathInfo(P) ==
    /\ Idle
    /\ \E p \in P : Call("get_path_info", [path |-> p], get_path_info(fs, p))

ListAllowedDir == Idle /\ Call("list_allowed_dir", <<>>, list_allowed_dir(fs))

\* the caller takes the outcome of the call
Return ==
    /\ last.op # ""
    /\ last' = NoCall
    /\ UNCHANGED <<environ, module, ALLOWED_DIR, fs>>

\* another process makes or removes a symbolic link between two calls
Symlink ==
    \E lp \in LinkPaths, t \in LinkTargets :
        /\ last.op = ""
        /\ ~Has(fs, lp)
        /\ IsDirAt(fs, Parent(lp))
        /\ fs' = Put(fs, lp, Link(t))
        /\ last' = NoCall
        /\ UNCHANGED <<environ, module, ALLOWED_DIR>>

Unlink ==
    \E lp \in LinkPaths :
        /\ last.op = ""
        /\ IsLinkAt(fs, lp)
        /\ fs' = Remove(fs, {lp})
        /\ last' = NoCall
        /\ UNCHANGED <<environ, module, ALLOWED_DIR>>

(***************************************************************************)
(* Spec: every operation, on a filesystem whose links another process      *)
(* changes between calls.                                                  *)
(***************************************************************************)
Init ==
    /\ environ \in ConfigValues
    /\ module = "unloaded"
    /\ ALLOWED_DIR = <<>>
    /\ fs = InitFs
    /\ last = NoCall

Next ==
    \/ Import
    \/ PathIsAllowed(Paths)
    \/ ReadFiles(Paths)
    \/ WriteFile(WritePaths, Contents)
    \/ EditFile(WritePaths, Frags)
    \/ CreateDir(WritePaths)
    \/ ListDir(Paths)
    \/ Move(SrcPaths, DstPaths)
    \/ Search(Paths, Patterns)
    \/ GetPathInfo(Paths)
    \/ ListAllowedDir
    \/ Return
    \/ Symlink
    \/ Unlink

Spec == Init /\ [][Next]_vars

(***************************************************************************)
(* SpecEdit: edit_file on every short file over "a", "\r", "\n".           *)
(***************************************************************************)
InitEdit ==
    /\ environ = CfgOne
    /\ module = "unloaded"
    /\ ALLOWED_DIR = <<>>
    /\ \E d \in SeqsUpTo(EditChars, MaxText) : fs = Put(InitFs, <<"s", "f">>, File(d))
    /\ last = NoCall

NextEdit ==
    \/ Import
    \/ EditFile(EditPaths, SeqsUpTo(EditChars, MaxFrag))
    \/ Return

SpecEdit == InitEdit /\ [][NextEdit]_vars

(***************************************************************************)
(* SpecLoader: the import under every ALLOWED_DIR value of a few tokens.   *)
(***************************************************************************)
InitLoader ==
    /\ environ \in TokenTexts
    /\ module = "unloaded"
    /\ ALLOWED_DIR = <<>>
    /\ fs = InitFs
    /\ last = NoCall

NextLoader ==
    \/ Import
    \/ PathIsAllowed(LoaderPaths)
    \/ ListAllowedDir
    \/ Return

SpecLoader == InitLoader /\ [][NextLoader]_vars

(***************************************************************************)
(* Properties                                                              *)
(***************************************************************************)
PathOps == {"read_files", "write_file", "edit_file", "create_dir", "list_dir",
            "move", "search", "get_path_info"}

\* the path arguments of a call
ArgPaths(c) ==
    IF c.op = "read_files" THEN {c.args.paths[i] : i \in DOMAIN c.args.paths}
    ELSE IF c.op = "move" THEN {c.args.src, c.args.dst}
    ELSE {c.args.path}

\* loc is an allowed root or lies under one
InRoots(loc) == \E i \in DOMAIN ALLOWED_DIR : IsPrefix(ALLOWED_DIR[i], loc)

\* the call returned nothing
Nothing(c) ==
    /\ c.text = ""
    /\ c.data = <<>>
    /\ c.contents = <<>>
    /\ c.entries = {}
    /\ c.paths = {}
    /\ c.info = NoInfo

\* a call of op starts in this step
Starts(op) == last.op = "" /\ last'.op = op

\* C1: _path_is_allowed(P) returns iff the canonical form of P is an allowed
\* root or lies under one, and raises NotAuthorizedError otherwise; when P
\* names an existing entry, that is the entry the kernel reaches through
\* links and ".."; /s/../e/f is denied for the root /s.
C1_CheckIffContained ==
    last.op = "_path_is_allowed" =>
        /\ last.exc \in {"", "NotAuthorizedError"}
        /\ (last.exc = "") <=> InRoots(resolve(fs, last.args.path).path)
        /\ exists(fs, last.args.path) =>
              ((last.exc = "") <=> InRoots(Lookup(fs, last.args.path).loc))
        /\ (last.args.path = <<"s", "..", "e", "f">> /\ ALLOWED_DIR = <<<<"s">>>>) =>
              last.exc = "NotAuthorizedError"
        /\ (\E i \in DOMAIN ALLOWED_DIR : last.args.path = ALLOWED_DIR[i]
                                          /\ ~IsLinkAt(fs, last.args.path)) =>
              last.exc = ""

\* C1 witness: /s/l/f is denied for the root /s while /s/l links to /e
C1_Witness ==
    /\ last.op = "_path_is_allowed"
    /\ last.args.path = <<"s", "l", "f">>
    /\ ALLOWED_DIR = <<<<"s">>>>
    /\ IsLinkAt(fs, <<"s", "l">>)
    /\ fs[<<"s", "l">>].to = <<"e">>
    /\ last.exc = "NotAuthorizedError"

\* C2: a call with a path argument that the check denies raises
\* NotAuthorizedError, leaves the filesystem as it was, acts on no entry and
\* returns nothing; and NotAuthorizedError is raised only then.
C2_DeniedBeforeIO ==
    [][(last.op = "" /\ last'.op \in PathOps) =>
          /\ (\E p \in ArgPaths(last') : _path_is_allowed(fs, p) = "NotAuthorizedError") =>
                /\ last'.exc = "NotAuthorizedError"
                /\ fs' = fs
                /\ last'.acted = {}
                /\ Nothing(last')
          /\ last'.exc = "NotAuthorizedError" =>
                \E p \in ArgPaths(last') : _path_is_allowed(fs, p) = "NotAuthorizedError"]_vars

\* C2 witness: move is denied for its destination alone, the source being allowed
C2_Witness ==
    /\ last.op = "move"
    /\ last.exc = "NotAuthorizedError"
    /\ _path_is_allowed(fs, last.args.src) = ""
    /\ _path_is_allowed(fs, last.args.dst) = "NotAuthorizedError"
    /\ exists(fs, last.args.src)

\* C3: every entry a call reads, writes, renames, lists or returns is an
\* allowed root or lies under one.
C3_ActsInsideRoots == \A loc \in last.acted : InRoots(loc)

\* C4: with ALLOWED_DIR = "" the import succeeds with no root, every call that
\* names a path raises NotAuthorizedError, and list_allowed_dir returns [].
C4_EmptyFailsClosed ==
    environ = <<>> =>
        /\ module \in {"unloaded", "loaded"}
        /\ ALLOWED_DIR = <<>>
        /\ (last.op = "_path_is_allowed" \/ (last.op \in PathOps /\ ArgPaths(last) # {})) =>
              last.exc = "NotAuthorizedError"
        /\ last.op = "list_allowed_dir" => (last.exc = "" /\ last.data = <<>>)

\* C4 witness: a write to /s/f is denied under the empty allow-list
C4_Witness ==
    /\ environ = <<>>
    /\ last.op = "write_file"
    /\ last.args.path = <<"s", "f">>
    /\ last.exc = "NotAuthorizedError"

\* C5: edit_file with dry_run=True leaves the filesystem as it was, whatever
\* its outcome.
C5_DryRunNoWrite ==
    [][(Starts("edit_file") /\ last'.args.dry_run) => fs' = fs]_vars

\* C5 witness: a dry run that returns a diff with a removed and an added line
C5_Witness ==
    /\ last.op = "edit_file"
    /\ last.args.dry_run
    /\ last.exc = ""
    /\ \E i \in DOMAIN last.data : last.data[i][1] = "-"
    /\ \E i \in DOMAIN last.data : last.data[i][1] = "+"

\* the bytes of the file that path names
Bytes(f, path) == f[Lookup(f, path).loc].data

\* path names an existing regular file
IsFile(f, path) == exists(f, path) /\ IsFileAt(f, Lookup(f, path).loc)

\* C6: on an authorized existing file in which old_str does not occur,
\* edit_file with dry_run=True returns the empty diff, and with dry_run=False
\* returns "File edited" and leaves the file byte-identical.
C6_AbsentFragmentNoChange ==
    [][(/\ Starts("edit_file")
        /\ _path_is_allowed(fs, last'.args.path) = ""
        /\ IsFile(fs, last'.args.path)
        /\ ~Occurs(Bytes(fs, last'.args.path), last'.args.old_str)
        /\ ~Occurs(TextRead(Bytes(fs, last'.args.path)), last'.args.old_str)) =>
          /\ last'.exc = ""
          /\ last'.args.dry_run => last'.data = <<>>
          /\ ~last'.args.dry_run => (last'.text = "File edited" /\ fs' = fs)]_vars

\* C7: after edit_file with dry_run=False, if old_str no longer occurs in the
\* file, the same call again returns "File edited" and leaves the file as the
\* first call left it.
C7_SecondEditNoChange ==
    (/\ last.op = "edit_file"
     /\ ~last.args.dry_run
     /\ last.exc = ""
     /\ ~Occurs(Bytes(fs, last.args.path), last.args.old_str)
     /\ ~Occurs(TextRead(Bytes(fs, last.args.path)), last.args.old_str)) =>
        /\ edit_file(fs, last.args.path, last.args.old_str, last.args.new_str, FALSE).exc = ""
        /\ edit_file(fs, last.args.path, last.args.old_str, last.args.new_str, FALSE).text
              = "File edited"
        /\ edit_file(fs, last.args.path, last.args.old_str, last.args.new_str, FALSE).fs = fs

\* C8: write_file that returns, returns one of three strings; on an authorized
\* existing path without overwrite_if_exists it returns "File exists, no action
\* taken" and changes nothing; "File created" only if the path did not exist,
\* "File overwritten" only if it existed and overwrite_if_exists was set, and
\* in both cases the file then holds the given content.
C8_WriteFileOutcomes ==
    [][Starts("write_file") =>
          /\ (/\ _path_is_allowed(fs, last'.args.path) = ""
              /\ exists(fs, last'.args.path)
              /\ ~last'.args.overwrite_if_exists) =>
                /\ last'.exc = ""
                /\ last'.text = "File exists, no action taken"
                /\ fs' = fs
          /\ last'.exc = "" =>
                /\ last'.text \in {"File created", "File overwritten",
                                   "File exists, no action taken"}
                /\ last'.text = "File created" => ~exists(fs, last'.args.path)
                /\ last'.text = "File overwritten" =>
                      (exists(fs, last'.args.path) /\ last'.args.overwrite_if_exists)
                /\ last'.text # "File exists, no action taken" =>
                      /\ IsFile(fs', last'.args.path)
                      /\ Bytes(fs', last'.args.path) = last'.args.content]_vars

\* C8 witness: an existing file with other content is left alone
C8_Witness ==
    /\ last.op = "write_file"
    /\ last.text = "File exists, no action taken"
    /\ IsFile(fs, last.args.path)
    /\ Bytes(fs, last.args.path) # last.args.content

\* C9: move with both paths authorized and dst existing raises FileExistsError
\* and leaves the filesystem as it was.
C9_MoveOntoExisting ==
    [][(/\ Starts("move")
        /\ _path_is_allowed(fs, last'.args.src) = ""
        /\ _path_is_allowed(fs, last'.args.dst) = ""
        /\ exists(fs, last'.args.dst)) =>
          (last'.exc = "FileExistsError" /\ fs' = fs)]_vars

\* C9 witness: an existing file is moved onto another existing file
C9_Witness ==
    /\ last.op = "move"
    /\ last.exc = "FileExistsError"
    /\ IsFile(fs, last.args.src)
    /\ IsFile(fs, last.args.dst)
    /\ Lookup(fs, last.args.src).loc # Lookup(fs, last.args.dst).loc

\* what the allow-list of a valid JSON array of strings is
ArrayRoots(f, v) == ResolveAll(f, [i \in DOMAIN v.items |-> Path(v.items[i].s)]).dirs

\* C10: a non-empty ALLOWED_DIR that does not start with "[" is one path and
\* gives one root; one that starts with "[" is parsed as a JSON array and
\* gives one root per element, and fails the import when it is malformed.
C10_LoaderByFirstCharacter ==
    (last.op = "import" /\ environ # <<>>) =>
        IF environ[1] # "["
        THEN module = "loaded" /\ ALLOWED_DIR = <<resolve(fs, Path(environ)).path>>
        ELSE IF ~json_loads(environ).ok THEN module = "JSONDecodeError"
        ELSE (\A i \in DOMAIN json_loads(environ).items :
                  json_loads(environ).items[i].t = "str") =>
                (module = "loaded" /\ ALLOWED_DIR = ArrayRoots(fs, json_loads(environ)))

====
